---- MODULE Spec2Model ----
(***************************************************************************)
(* Model of RFController (src/rf_controller.py) as driven by SmartRFApp    *)
(* (src/gui_main.py).                                                      *)
(*                                                                         *)
(* Threads: the Tk main thread, which calls auto_connect, disconnect,      *)
(* stop_sweep and start_polling one after the other; one thread per        *)
(* run_sweep call (gui_main._start_sweep), which hands over to the         *)
(* _sweep_loop thread it starts; the _polling_loop threads; and the GUI's  *)
(* own _poll_loop threads.  The source holds no lock, so every read or     *)
(* write of a shared attribute is a step of its own.  Background threads   *)
(* are anonymous: they are kept as a bag of records, one per live thread,  *)
(* and a thread that returns leaves the bag.                               *)
(*                                                                         *)
(* Serial objects are reachable only through self.serial_handle, so the    *)
(* model keeps the state of the object that attribute refers to, the       *)
(* object auto_connect has constructed but not yet stored, and the number  *)
(* of objects that were overwritten while open.                            *)
(***************************************************************************)
EXTENDS Integers, Sequences, FiniteSets, Bags, TLC

\* ------------------------------------------------------------ bounds
MaxThreads == 3   \* background threads alive at the same time
MaxLeaks   == 1   \* open Serial objects that lost their last reference
MaxFreq    == 3   \* sweep frequencies are drawn from 0..MaxFreq
MaxStep    == 2   \* sweep steps are drawn from -MaxStep..MaxStep
MaxIters   == 4   \* iterations, and written commands, up to which a sweep is followed
MaxRx      == 3   \* lines the device sends in a session that receives

Freqs      == 0..MaxFreq
Steps      == (0 - MaxStep)..MaxStep
\* every (start_freq, stop_freq, step_hz) the sweep entry fields may hold
AllParams  == Freqs \X Freqs \X Steps
\* the parameters used when sweeps run next to connect, disconnect and poll
GuiParams  == { <<0, 2, 1>> }
\* what readline().decode().strip() yields: an empty line or a status line
RxLines    == { "", "STATUS:LOCKED", "STATUS:UNLOCKED" }

VARIABLES
    connected,        \* self.connected
    serial_handle,    \* self.serial_handle: "None", or the state of its object
    opened,           \* auto_connect holds a new, open Serial not yet stored
    leaked,           \* open Serial objects no attribute refers to any more
    polling_active,   \* self.polling_active
    sweep_active,     \* self._sweep_active
    stop_event,       \* self._stop_event.is_set()
    mainpc,           \* position of the Tk main thread
    threads,          \* bag of the live background threads
    rx_queue,         \* self.rx_queue, oldest line first
    device            \* the lines the device has yet to send

vars == << connected, serial_handle, opened, leaked, polling_active,
           sweep_active, stop_event, mainpc, threads, rx_queue, device >>

shared == << connected, serial_handle, opened, leaked, polling_active,
             sweep_active, stop_event, rx_queue, device >>

\* ------------------------------------------------------------ helpers
\* a background thread; the sweep fields are 0 / empty for the other kinds.
\* stopreq records, for a sweep loop, that a stop_sweep call has completed
\* since the loop's last while test.
Thread(kind, pc) ==
    [ kind |-> kind, pc |-> pc, start |-> 0, stop |-> 0, step |-> 0,
      current |-> 0, sent |-> << >>, dropped |-> FALSE,
      complete |-> FALSE, stopreq |-> FALSE ]

\* the iterations a sweep loop has made, as far as they moved current: its
\* distance from start in steps (with a step of 0 current never moves)
Iters(t) ==
    IF t.step > 0 THEN (t.current - t.start) \div t.step
    ELSE IF t.step < 0 THEN (t.start - t.current) \div (0 - t.step)
    ELSE 0

\* sent is the record of the commands a sweep loop has written; it keeps the
\* first MaxIters of them
Written(sent, freq) ==
    IF Len(sent) < MaxIters THEN Append(sent, freq) ELSE sent

Live         == BagToSet(threads)
Add(t)       == threads (+) SetToBag({t})
Remove(t)    == threads (-) SetToBag({t})
Replace(t,u) == (threads (-) SetToBag({t})) (+) SetToBag({u})
MayStart     == BagCardinality(threads) < MaxThreads

\* self.serial_handle and self.serial_handle.is_open
IsOpen == serial_handle = "open"

\* send_command's guard: connected and a handle present
SendGuard == connected /\ serial_handle # "None"

\* a termination test that lets the sweep run one step further
SweepPassedStop(current, stop) == current > stop

\* the sweep loop's termination test after current += step_hz
SweepReachedStop(current, stop) == current >= stop

\* while self._sweep_active and not self._stop_event.is_set()
SweepMayRun == sweep_active /\ ~stop_event

\* while self.polling_active and not self._stop_event.is_set()
PollMayRun == polling_active /\ ~stop_event

\* the positions inside _sweep_loop (a thread of kind "sweep" is before them
\* while it is still the run_sweep call)
SweepLoopPcs == { "test", "send", "write", "exit" }
SweepLoops   == { t \in Live : t.kind = "sweep" /\ t.pc \in SweepLoopPcs }
PollLoops    == { t \in Live : t.kind = "poll" }
GuiLoops     == { t \in Live : t.kind = "gui" }

\* Serial objects that are open
OpenHandles == (IF IsOpen THEN 1 ELSE 0) + (IF opened THEN 1 ELSE 0) + leaked

Init ==
    /\ connected = FALSE
    /\ serial_handle = "None"
    /\ opened = FALSE
    /\ leaked = 0
    /\ polling_active = FALSE
    /\ sweep_active = FALSE
    /\ stop_event = FALSE
    /\ mainpc = "idle"
    /\ threads = EmptyBag
    /\ rx_queue = << >>
    /\ device = << >>

\* ------------------------------------------------------------ auto_connect
\* comports() returns an empty list: return False, nothing else is touched
AutoConnectNoPorts ==
    /\ mainpc = "idle"
    /\ mainpc' = "ret_noports"
    /\ UNCHANGED << shared, threads >>

\* an auto_connect that would set connected before the handle is stored
AutoConnectOpenConnectsFirst ==
    /\ mainpc = "idle"
    /\ MayStart
    /\ IsOpen => leaked < MaxLeaks
    /\ opened' = TRUE
    /\ connected' = TRUE
    /\ mainpc' = "ac_assign"
    /\ UNCHANGED << serial_handle, leaked, polling_active,
                    sweep_active, stop_event, threads,
                    rx_queue, device >>

\* comports() is non-empty and serial.Serial(...) constructs an open handle
AutoConnectOpen ==
    /\ mainpc = "idle"
    /\ MayStart
    /\ IsOpen => leaked < MaxLeaks
    /\ opened' = TRUE
    /\ mainpc' = "ac_assign"
    /\ UNCHANGED << connected, serial_handle, leaked, polling_active,
                    sweep_active, stop_event, threads,
                    rx_queue, device >>

\* serial.Serial(...) raises: except: self.connected = False; return False
AutoConnectOpenFails ==
    /\ mainpc = "idle"
    /\ connected' = FALSE
    /\ UNCHANGED << serial_handle, opened, leaked, polling_active,
                    sweep_active, stop_event, mainpc, threads,
                    rx_queue, device >>

\* self.serial_handle = <the new Serial>; the old object is never closed
AutoConnectAssign ==
    /\ mainpc = "ac_assign"
    /\ serial_handle' = "open"
    /\ opened' = FALSE
    /\ leaked' = IF IsOpen THEN leaked + 1 ELSE leaked
    /\ mainpc' = "ac_setconn"
    /\ UNCHANGED << connected, polling_active, sweep_active, stop_event,
                    threads,
                    rx_queue, device >>

\* self.connected = True; return True
AutoConnectSetConnected ==
    /\ mainpc = "ac_setconn"
    /\ connected' = TRUE
    /\ mainpc' = "ret_ok"
    /\ UNCHANGED << serial_handle, opened, leaked, polling_active,
                    sweep_active, stop_event, threads,
                    rx_queue, device >>

\* SmartRFApp._connect after auto_connect returned True: start _poll_loop
ConnectStartGuiPoll ==
    /\ mainpc = "ret_ok"
    /\ threads' = Add(Thread("gui", "test"))
    /\ mainpc' = "idle"
    /\ UNCHANGED shared

\* SmartRFApp._connect after auto_connect returned False for want of a port
ConnectFailed ==
    /\ mainpc = "ret_noports"
    /\ mainpc' = "idle"
    /\ UNCHANGED << shared, threads >>

\* ------------------------------------------------------------ disconnect
\* self.polling_active = False
DisconnectClearPolling ==
    /\ mainpc = "idle"
    /\ polling_active' = FALSE
    /\ mainpc' = "dc_sweep"
    /\ UNCHANGED << connected, serial_handle, opened, leaked, sweep_active,
                    stop_event, threads,
                    rx_queue, device >>

\* self._sweep_active = False
DisconnectClearSweep ==
    /\ mainpc = "dc_sweep"
    /\ sweep_active' = FALSE
    /\ mainpc' = "dc_stop"
    /\ UNCHANGED << connected, serial_handle, opened, leaked, polling_active,
                    stop_event, threads,
                    rx_queue, device >>

\* self._stop_event.set()
DisconnectSetStop ==
    /\ mainpc = "dc_stop"
    /\ stop_event' = TRUE
    /\ mainpc' = "dc_close"
    /\ UNCHANGED << connected, serial_handle, opened, leaked, polling_active,
                    sweep_active, threads,
                    rx_queue, device >>

\* if self.serial_handle and self.serial_handle.is_open: close()
DisconnectClose ==
    /\ mainpc = "dc_close"
    /\ IsOpen
    /\ serial_handle' = "closed"
    /\ mainpc' = "dc_finally"
    /\ UNCHANGED << connected, opened, leaked, polling_active, sweep_active,
                    stop_event, threads,
                    rx_queue, device >>

\* a close() whose exception would leave disconnect instead of being caught:
\* the finally clause is skipped
DisconnectCloseEscapes ==
    /\ mainpc = "dc_close"
    /\ IsOpen
    /\ mainpc' = "idle"
    /\ UNCHANGED << shared, threads >>

\* close() raises: the except clause logs it, the handle stays as it was
DisconnectCloseRaises ==
    /\ mainpc = "dc_close"
    /\ IsOpen
    /\ mainpc' = "dc_finally"
    /\ UNCHANGED << shared, threads >>

\* no handle, or the handle is not open: close() is skipped
DisconnectSkipClose ==
    /\ mainpc = "dc_close"
    /\ ~IsOpen
    /\ mainpc' = "dc_finally"
    /\ UNCHANGED << shared, threads >>

\* finally: self.connected = False
DisconnectFinally ==
    /\ mainpc = "dc_finally"
    /\ connected' = FALSE
    /\ mainpc' = "idle"
    /\ UNCHANGED << serial_handle, opened, leaked, polling_active,
                    sweep_active, stop_event, threads,
                    rx_queue, device >>

\* ------------------------------------------------------------ stop_sweep
\* if self._sweep_active: (otherwise the call returns, having done nothing)
StopSweepCheck ==
    /\ mainpc = "idle"
    /\ sweep_active
    /\ mainpc' = "ss_clear"
    /\ UNCHANGED << shared, threads >>

\* self._sweep_active = False
StopSweepClear ==
    /\ mainpc = "ss_clear"
    /\ sweep_active' = FALSE
    /\ mainpc' = "ss_set"
    /\ UNCHANGED << connected, serial_handle, opened, leaked, polling_active,
                    stop_event, threads,
                    rx_queue, device >>

\* the running sweep loops, noted as having been asked to stop
MarkStopped(t) ==
    IF t.kind = "sweep" /\ t.pc \in { "test", "send", "write" }
    THEN [ t EXCEPT !.stopreq = TRUE ] ELSE t

StopRequested ==
    [ u \in { MarkStopped(t) : t \in Live } |->
        CopiesIn(u, threads)
        + (IF u.stopreq /\ MarkStopped([ u EXCEPT !.stopreq = FALSE ]) = u
           THEN CopiesIn([ u EXCEPT !.stopreq = FALSE ], threads) ELSE 0) ]

\* self._stop_event.set(); stop_sweep returns. noted says whether the
\* specification keeps the stopreq history of the sweep loops.
StopSweepSet(noted) ==
    /\ mainpc = "ss_set"
    /\ stop_event' = TRUE
    /\ mainpc' = "idle"
    /\ threads' = IF noted THEN StopRequested ELSE threads
    /\ UNCHANGED << connected, serial_handle, opened, leaked, polling_active,
                    sweep_active,
                    rx_queue, device >>

\* ------------------------------------------------------------ start_polling
\* if not self.connected: return (the call does nothing); otherwise
\* self.polling_active = True, then the _polling_loop thread starts
StartPolling ==
    /\ mainpc = "idle"
    /\ MayStart
    /\ connected
    /\ polling_active' = TRUE
    /\ threads' = Add(Thread("poll", "test"))
    /\ UNCHANGED << connected, serial_handle, opened, leaked, sweep_active,
                    stop_event, mainpc,
                    rx_queue, device >>

\* ------------------------------------------------------------ run_sweep
\* SmartRFApp._start_sweep: a new thread that will call run_sweep(p)
GuiStartSweep(P) ==
    /\ mainpc = "idle"
    /\ MayStart
    /\ \E p \in P :
         threads' = Add([ Thread("sweep", "rs_check") EXCEPT
                            !.start = p[1], !.stop = p[2], !.step = p[3] ])
    /\ UNCHANGED << shared, mainpc >>

\* if not self.connected: return
RunSweepCheck(t) ==
    /\ t.kind = "sweep" /\ t.pc = "rs_check"
    /\ threads' = Replace(t, [ t EXCEPT !.pc =
                    IF connected THEN "rs_set" ELSE "rs_return" ])
    /\ UNCHANGED << shared, mainpc >>

\* the rejected call returns and its thread ends
RunSweepReturn(t) ==
    /\ t.kind = "sweep" /\ t.pc = "rs_return"
    /\ threads' = Remove(t)
    /\ UNCHANGED << shared, mainpc >>

\* self._sweep_active = True
RunSweepSet(t) ==
    /\ t.kind = "sweep" /\ t.pc = "rs_set"
    /\ sweep_active' = TRUE
    /\ threads' = Replace(t, [ t EXCEPT !.pc = "rs_clear" ])
    /\ UNCHANGED << connected, serial_handle, opened, leaked, polling_active,
                    stop_event, mainpc,
                    rx_queue, device >>

\* self._stop_event.clear(); Thread(target=self._sweep_loop, ...).start();
\* the loop begins with current = start_freq
RunSweepClearAndStart(t) ==
    /\ t.kind = "sweep" /\ t.pc = "rs_clear"
    /\ stop_event' = FALSE
    /\ threads' = Replace(t, [ t EXCEPT !.pc = "test", !.current = t.start ])
    /\ UNCHANGED << connected, serial_handle, opened, leaked, polling_active,
                    sweep_active, mainpc,
                    rx_queue, device >>

\* ------------------------------------------------------------ _sweep_loop
\* while self._sweep_active and not self._stop_event.is_set()
SweepTest(t) ==
    /\ t.kind = "sweep" /\ t.pc = "test"
    /\ Iters(t) < MaxIters
    /\ threads' = Replace(t, [ t EXCEPT !.stopreq = FALSE, !.pc =
                    IF SweepMayRun THEN "send" ELSE "exit" ])
    /\ UNCHANGED << shared, mainpc >>

\* current += step_hz; if current >= stop_freq: break; else sleep and loop
SweepAdvance(t) ==
    LET next == t.current + t.step IN
    [ t EXCEPT !.current = next,
               !.complete = SweepReachedStop(next, t.stop),
               !.pc = IF SweepReachedStop(next, t.stop) THEN "exit" ELSE "test" ]

\* send_command: if not self.connected or not self.serial_handle: return
SweepSend(t) ==
    /\ t.kind = "sweep" /\ t.pc = "send"
    /\ threads' = Replace(t, IF SendGuard THEN [ t EXCEPT !.pc = "write" ]
                             ELSE SweepAdvance([ t EXCEPT !.dropped = TRUE ]))
    /\ UNCHANGED << shared, mainpc >>

\* self.serial_handle.write(...): the bytes go out on an open handle
SweepWrite(t) ==
    /\ t.kind = "sweep" /\ t.pc = "write"
    /\ IsOpen
    /\ threads' = Replace(t, SweepAdvance([ t EXCEPT
                                !.sent = Written(t.sent, t.current) ]))
    /\ UNCHANGED << shared, mainpc >>

\* write raises (closed handle, or a write timeout): "TX failed" is logged
SweepWriteFails(t) ==
    /\ t.kind = "sweep" /\ t.pc = "write"
    /\ threads' = Replace(t, SweepAdvance([ t EXCEPT !.dropped = TRUE ]))
    /\ UNCHANGED << shared, mainpc >>

\* after the loop: self._sweep_active = False; the thread ends
SweepExit(t) ==
    /\ t.kind = "sweep" /\ t.pc = "exit"
    /\ sweep_active' = FALSE
    /\ threads' = Remove(t)
    /\ UNCHANGED << connected, serial_handle, opened, leaked, polling_active,
                    stop_event, mainpc,
                    rx_queue, device >>

\* ------------------------------------------------------------ _polling_loop
\* while self.polling_active and not self._stop_event.is_set()
PollTest(t) ==
    /\ t.kind = "poll" /\ t.pc = "test"
    /\ threads' = IF PollMayRun THEN Replace(t, [ t EXCEPT !.pc = "send" ])
                  ELSE Remove(t)
    /\ UNCHANGED << shared, mainpc >>

\* send_command("STATUS?"): the guard
PollSend(t) ==
    /\ t.kind = "poll" /\ t.pc = "send"
    /\ threads' = Replace(t, [ t EXCEPT !.pc =
                    IF SendGuard THEN "write" ELSE "read" ])
    /\ UNCHANGED << shared, mainpc >>

\* send_command("STATUS?"): serial_handle.write, which succeeds or raises
PollWrite(t) ==
    /\ t.kind = "poll" /\ t.pc = "write"
    /\ threads' = Replace(t, [ t EXCEPT !.pc = "read" ])
    /\ UNCHANGED << shared, mainpc >>

\* read_response: if not self.connected: return None
PollRead(t) ==
    /\ t.kind = "poll" /\ t.pc = "read"
    /\ threads' = Replace(t, [ t EXCEPT !.pc =
                    IF connected THEN "readio" ELSE "test" ])
    /\ UNCHANGED << shared, mainpc >>

\* read_response past its guard: in_waiting is 0, or the access raises, and
\* nothing is queued; or readline returns the device's next line, which
\* rx_queue.put(data) appends unless it is empty after strip()
ReadLine ==
    \E got \in BOOLEAN :
        IF got /\ IsOpen /\ device # << >>
        THEN /\ device' = Tail(device)
             /\ rx_queue' = IF Head(device) = "" THEN rx_queue
                            ELSE Append(rx_queue, Head(device))
        ELSE UNCHANGED << rx_queue, device >>

\* read_response: serial_handle.in_waiting / readline; then time.sleep
PollReadIO(t) ==
    /\ t.kind = "poll" /\ t.pc = "readio"
    /\ threads' = Replace(t, [ t EXCEPT !.pc = "test" ])
    /\ ReadLine
    /\ UNCHANGED << connected, serial_handle, opened, leaked, polling_active,
                    sweep_active, stop_event, mainpc >>

\* ------------------------------------------------------------ gui _poll_loop
\* while self.controller.connected: and, right after it, read_response's own
\* if not self.connected: return None (nothing happens between the two reads)
GuiTest(t) ==
    /\ t.kind = "gui" /\ t.pc = "test"
    /\ threads' = IF connected THEN Replace(t, [ t EXCEPT !.pc = "readio" ])
                  ELSE Remove(t)
    /\ UNCHANGED << shared, mainpc >>

\* read_response: serial_handle.in_waiting / readline; then time.sleep
GuiReadIO(t) ==
    /\ t.kind = "gui" /\ t.pc = "readio"
    /\ threads' = Replace(t, [ t EXCEPT !.pc = "test" ])
    /\ ReadLine
    /\ UNCHANGED << connected, serial_handle, opened, leaked, polling_active,
                    sweep_active, stop_event, mainpc >>

\* ------------------------------------------------------------ specification
ConnectStep ==
    \/ AutoConnectNoPorts
    \/ AutoConnectOpen
    \/ AutoConnectOpenFails
    \/ AutoConnectAssign
    \/ AutoConnectSetConnected
    \/ ConnectStartGuiPoll
    \/ ConnectFailed

DisconnectStep ==
    \/ DisconnectClearPolling
    \/ DisconnectClearSweep
    \/ DisconnectSetStop
    \/ DisconnectClose
    \/ DisconnectCloseRaises
    \/ DisconnectSkipClose
    \/ DisconnectFinally

StopSweepStep(noted) ==
    \/ StopSweepCheck
    \/ StopSweepClear
    \/ StopSweepSet(noted)

SweepStep(t) ==
    \/ RunSweepCheck(t)
    \/ RunSweepReturn(t)
    \/ RunSweepSet(t)
    \/ RunSweepClearAndStart(t)
    \/ SweepTest(t)
    \/ SweepSend(t)
    \/ SweepWrite(t)
    \/ SweepWriteFails(t)
    \/ SweepExit(t)

PollStep(t) ==
    \/ PollTest(t)
    \/ PollSend(t)
    \/ PollWrite(t)
    \/ PollRead(t)
    \/ PollReadIO(t)

GuiStep(t) ==
    \/ GuiTest(t)
    \/ GuiReadIO(t)

Next ==
    \/ ConnectStep
    \/ DisconnectStep
    \/ StopSweepStep(FALSE)
    \/ StartPolling
    \/ GuiStartSweep(GuiParams)
    \/ \E t \in Live : SweepStep(t)
    \/ \E t \in Live : PollStep(t)
    \/ \E t \in Live : GuiStep(t)

Spec == Init /\ [][Next]_vars

\* ------------------------------------------------------------ one sweep
\* A connected session (the state auto_connect and SmartRFApp._connect leave
\* behind) on which sweeps are run one after the other, with every parameter
\* set of AllParams, and may be stopped or cut short by a disconnect.
SweepInit ==
    /\ connected = TRUE
    /\ serial_handle = "open"
    /\ opened = FALSE
    /\ leaked = 0
    /\ polling_active = FALSE
    /\ sweep_active = FALSE
    /\ stop_event = FALSE
    /\ mainpc = "idle"
    /\ threads = SetToBag({ Thread("gui", "test") })
    /\ rx_queue = << >>
    /\ device = << >>

StartOneSweep ==
    /\ \A t \in Live : t.kind # "sweep"
    /\ GuiStartSweep(AllParams)

SweepNext ==
    \/ StartOneSweep
    \/ StopSweepStep(FALSE)
    \/ DisconnectStep
    \/ \E t \in Live : SweepStep(t)
    \/ \E t \in Live : GuiStep(t)

SweepSpec == SweepInit /\ [][SweepNext]_vars

\* ------------------------------------------------------------ StopSpec
\* A connected session on which the GUI starts sweeps (also while one is
\* running), stops them and disconnects; each sweep loop carries the note of
\* a stop_sweep call completed since its last while test.
StopNext ==
    \/ GuiStartSweep(GuiParams)
    \/ StopSweepStep(TRUE)
    \/ DisconnectStep
    \/ \E t \in Live : SweepStep(t)
    \/ \E t \in Live : GuiStep(t)

StopSpec == SweepInit /\ [][StopNext]_vars

\* ------------------------------------------------------------ properties
Abs(n)  == IF n < 0 THEN 0 - n ELSE n
Sign(n) == IF n > 0 THEN 1 ELSE IF n < 0 THEN 0 - 1 ELSE 0
\* ceil(a / b) for a >= 0, b > 0
CeilDiv(a, b) == (a + b - 1) \div b

\* number of live threads among the records of S
CountIn(S) == BagCardinality([ t \in S |-> CopiesIn(t, threads) ])

\* sweep parameters the specification accepts
ValidParams(t) ==
    /\ t.step # 0
    /\ t.start # t.stop
    /\ Sign(t.step) = Sign(t.stop - t.start)

\* the loop was left through its while test, not through the break
Cancelled(t) == t.pc = "exit" /\ ~t.complete

\* a step of a run_sweep call (before its loop runs)
RunSweepCallStep ==
    \E t \in Live : RunSweepCheck(t) \/ RunSweepSet(t) \/ RunSweepClearAndStart(t)

\* a step in which some thread writes to or reads from the Serial object
TransportAccess ==
    \E t \in Live : \/ SweepWrite(t) \/ SweepWriteFails(t)
                     \/ PollWrite(t) \/ PollReadIO(t) \/ GuiReadIO(t)

\* C1: at most one _sweep_loop thread is alive in every reachable state.
C1_SingleFlightSweep == CountIn(SweepLoops) <= 1

\* C2: a step of a run_sweep call made while a sweep loop is alive starts no
\* new loop and leaves _sweep_active, _stop_event and the running loops as
\* they are.
C2_RunSweepWhileActiveRejected ==
    [][ (CountIn(SweepLoops) > 0 /\ RunSweepCallStep)
          => /\ sweep_active' = sweep_active
             /\ stop_event' = stop_event
             /\ SweepLoops' = SweepLoops
             /\ CountIn(SweepLoops)' = CountIn(SweepLoops) ]_vars

\* C3: when disconnect closes the serial handle, no _polling_loop and no
\* _sweep_loop thread is alive.
C3_CloseAfterLoopsExited ==
    [][ (mainpc = "dc_close" /\ serial_handle = "open"
                             /\ serial_handle' = "closed")
          => (SweepLoops = {} /\ PollLoops = {}) ]_vars

\* C4: no thread ever performs write, in_waiting or readline on a handle that
\* has been closed.
C4_NoAccessToClosedHandle ==
    [][ TransportAccess => serial_handle # "closed" ]_vars

\* C5: with valid parameters, in either direction, a sweep that is neither
\* cancelled nor loses a command sends a strictly monotonic sequence of
\* values, all of them before stop, and has ended as complete by the time it
\* has made ceil(|stop - start| / |step|) steps.
C5_SweepBothDirections ==
    \A t \in SweepLoops :
        (ValidParams(t) /\ ~t.dropped /\ ~Cancelled(t)) =>
            LET bound == CeilDiv(Abs(t.stop - t.start), Abs(t.step)) IN
            /\ \A k \in 1..(Len(t.sent) - 1) :
                   IF t.step > 0 THEN t.sent[k] < t.sent[k + 1]
                                 ELSE t.sent[k] > t.sent[k + 1]
            /\ \A k \in 1..Len(t.sent) :
                   IF t.step > 0 THEN t.sent[k] < t.stop
                                 ELSE t.sent[k] > t.stop
            /\ Iters(t) <= bound
            /\ Iters(t) = bound => (t.pc = "exit" /\ t.complete)

\* the values start + k*step, k = 0, 1, ..., that lie strictly below stop
ExpectedBelowStop(start, stop, step) ==
    LET n == Cardinality({ k \in 0..(stop - start) : start + k * step < stop })
    IN  [ k \in 1..n |-> start + (k - 1) * step ]

IsPrefix(s, q) == Len(s) <= Len(q) /\ \A k \in 1..Len(s) : s[k] = q[k]

\* C6: an increasing sweep that loses no command sends start + k*step for
\* k = 0, 1, ... in that order, only values strictly below stop; while it is
\* not cancelled it goes on until it has sent all of them, and it ends as
\* complete exactly when it has.
C6_IncreasingSweepSequence ==
    \A t \in SweepLoops :
        (t.start < t.stop /\ t.step > 0 /\ ~t.dropped) =>
            LET exp == ExpectedBelowStop(t.start, t.stop, t.step) IN
            /\ IsPrefix(t.sent, exp)
            /\ t.complete <=> (t.sent = exp)
            /\ t.pc \in { "test", "send", "write" } => Len(t.sent) < Len(exp)
            /\ t.pc \in { "test", "send", "write" } =>
                   t.current = t.start + Len(t.sent) * t.step

\* C6 witness: an increasing sweep has ended as complete after three commands
C6_Witness ==
    \E t \in SweepLoops :
        /\ t.start < t.stop /\ t.step > 0 /\ ~t.dropped
        /\ t.pc = "exit" /\ t.complete
        /\ Len(t.sent) = 3
        /\ t.sent[3] < t.stop /\ t.sent[3] + t.step >= t.stop

\* C7: a run_sweep call with invalid parameters starts no sweep loop and
\* sends no SETFREQ command.
C7_InvalidParametersRejected ==
    \A t \in Live :
        (t.kind = "sweep" /\ ~ValidParams(t)) =>
            (t.pc \notin SweepLoopPcs /\ t.sent = << >>)

\* C8: when auto_connect returns because no port was found, connected is
\* false.
C8_NoPortsLeavesDisconnected == mainpc = "ret_noports" => ~connected

\* C9: at most one Serial object is open at any time.
C9_AtMostOneOpenHandle == OpenHandles <= 1

\* C10: connected holds exactly when serial_handle refers to an open handle.
C10_ConnectedIffHandleOpen == connected <=> IsOpen

\* ------------------------------------------------------------ C11 .. C13
\* A thread at pc "write" has passed send_command's guard and is at
\* serial_handle.write; a thread at pc "readio" has passed read_response's guard
\* and is at serial_handle.in_waiting / readline. The step that leaves the pc is
\* the completion of that access.
InTransport == { t \in Live : t.pc \in { "write", "readio" } }

\* C11: accesses to the serial handle are mutually exclusive: never are two
\* threads at the same time inside the write of send_command or the
\* in_waiting / readline attempt of read_response.
C11_TransportMutualExclusion == CountIn(InTransport) <= 1

\* C12: poller single-flight: whatever calls were made, at most one
\* _polling_loop thread is alive.
C12_SingleFlightPoller == CountIn(PollLoops) <= 1

\* C13: stop_sweep never makes a running poll loop exit: the step of stop_sweep
\* that sets _stop_event leaves the continuation condition of a running poll
\* loop as it was.
C13_StopSweepSparesPoller ==
    [][ (mainpc = "ss_set" /\ mainpc' = "idle" /\ PollLoops # {} /\ PollMayRun)
            => PollMayRun' ]_vars

\* ------------------------------------------------------------ C14
DisconnectPcs == { "dc_sweep", "dc_stop", "dc_close", "dc_finally" }

C15_StoppedSweepExitsAtNextCheck ==
    [][ \A t \in Live :
          (t.kind = "sweep" /\ t.pc = "test" /\ t.stopreq)
            => threads' # Replace(t, [ t EXCEPT !.stopreq = FALSE,
                                                !.pc = "send" ]) ]_vars

\* ------------------------------------------------------------ LiveSpec, C16
\* sweeps whose current stays in range: the step is never negative
LiveParams == { p \in AllParams : p[3] >= 0 }

\* A connected session with a poll loop running, the GUI poll loop, and a
\* _start_sweep thread whose run_sweep call is about to begin.
LiveInit ==
    /\ connected = TRUE
    /\ serial_handle = "open"
    /\ opened = FALSE
    /\ leaked = 0
    /\ polling_active = TRUE
    /\ sweep_active = FALSE
    /\ stop_event = FALSE
    /\ mainpc = "idle"
    /\ rx_queue = << >>
    /\ device = << >>
    /\ \E p \in LiveParams :
         threads = SetToBag({ Thread("gui", "test"), Thread("poll", "test"),
                              [ Thread("sweep", "rs_check") EXCEPT
                                  !.start = p[1], !.stop = p[2],
                                  !.step = p[3] ] })

\* From then on the only calls are disconnect calls: no start_polling and no
\* run_sweep call is made.
LiveNext ==
    \/ DisconnectStep
    \/ \E t \in Live : SweepStep(t)
    \/ \E t \in Live : PollStep(t)
    \/ \E t \in Live : GuiStep(t)

\* Every thread that can run is scheduled again and again (there is one
\* thread of each kind).
LiveSpec ==
    /\ LiveInit
    /\ [][LiveNext]_vars
    /\ WF_vars(\E t \in Live : SweepStep(t))
    /\ WF_vars(\E t \in Live : PollStep(t))
    /\ WF_vars(\E t \in Live : GuiStep(t))

\* C16: once disconnect has returned, and no start_polling or run_sweep call
\* is made afterwards, every poll loop and sweep loop thread (also one whose
\* start call was in progress) eventually exits.
C16_LoopsExitAfterDisconnect ==
    (mainpc = "idle" /\ ~connected)
        ~> (\A t \in Live : t.kind \notin { "poll", "sweep" })

\* ------------------------------------------------------------ C17
\* the step with which a call starts its loop thread: Thread.start() in
\* start_polling and in run_sweep
LoopStarted ==
    \/ CountIn(PollLoops)' > CountIn(PollLoops)
    \/ CountIn(SweepLoops)' > CountIn(SweepLoops)

\* C17: run_sweep and start_polling on a session that is not connected start
\* nothing and leave _sweep_active, polling_active and _stop_event as they
\* are; so no poll loop or sweep loop is ever started while the session is
\* not connected.
C17_NoLoopStartedDisconnected ==
    [][ /\ (\E t \in Live : RunSweepCheck(t) /\ ~connected)
            => ( /\ sweep_active' = sweep_active
                 /\ polling_active' = polling_active
                 /\ stop_event' = stop_event
                 /\ ~LoopStarted )
        /\ LoopStarted => connected ]_vars

\* ------------------------------------------------------------ RxSpec, C18
\* A connected session whose device sends MaxRx lines, read by the GUI poll
\* loop and by the poll loops that start_polling starts.
RxInit ==
    /\ connected = TRUE
    /\ serial_handle = "open"
    /\ opened = FALSE
    /\ leaked = 0
    /\ polling_active = FALSE
    /\ sweep_active = FALSE
    /\ stop_event = FALSE
    /\ mainpc = "idle"
    /\ threads = SetToBag({ Thread("gui", "test") })
    /\ rx_queue = << >>
    /\ device \in [ 1..MaxRx -> RxLines ]

RxNext ==
    \/ StartPolling
    \/ DisconnectStep
    \/ \E t \in Live : PollStep(t)
    \/ \E t \in Live : GuiStep(t)

RxSpec == RxInit /\ [][RxNext]_vars

\* C18: rx_queue is bounded: some capacity N (below the number of lines the
\* device sends) is never exceeded, the oldest line being evicted when a
\* line arrives at capacity.
C18_RxQueueBounded == \E N \in 1..(MaxRx - 1) : Len(rx_queue) <= N

\* ------------------------------------------------------------ C19
\* C19: when start_polling is called on a connected session with no poller
\* running, the poll loop it starts sends STATUS? at least once unless a stop
\* or disconnect follows: the call leaves the loop's while condition true,
\* also after an earlier disconnect and reconnect or an earlier stop_sweep.
C19_StartedPollerRuns ==
    [][ (StartPolling /\ PollLoops = {}) => PollMayRun' ]_vars

\* ------------------------------------------------------------ C20
\* C20: connected implies that serial_handle is not None, and a thread that
\* has passed read_response's connected test finds a handle to dereference,
\* however auto_connect and disconnect are interleaved with it.
C20_ConnectedHasHandle ==
    /\ connected => serial_handle # "None"
    /\ \A t \in Live : t.pc = "readio" => serial_handle # "None"

\* a thread is past read_response's test while disconnect has already set
\* connected to False
C20_Witness ==
    /\ ~connected
    /\ mainpc = "idle"
    /\ \E t \in Live : t.pc = "readio"

====
